---------------------------- MODULE Spec2Model ----------------------------
(***************************************************************************)
(* A model of src/src/index.ts (simple-sharples): the menu description     *)
(* parser (sortMains, parseMeal, parseAndFilterMeals), the day grouping    *)
(* (groupMealsByDay), the special-line extractor (parseEssies), the        *)
(* request handler (handleRequest) and its middlewares (withTry,           *)
(* withCache).                                                             *)
(*                                                                         *)
(* JavaScript strings are TLA+ strings; a character is a string of length  *)
(* one.  The alphabet is ASCII.  Every regular expression of the source is *)
(* a definition that computes the length of its match at a position.       *)
(***************************************************************************)
EXTENDS Integers, Sequences, FiniteSets, TLC

VARIABLES
    lst,          \* sortMains: the argument built so far
    newLst,       \* sortMains: the returned list
    sortPc,       \* "input" | "done"
    description,  \* parseMeal: the description built so far
    nBlocks,      \* the number of fragments in description
    processed,    \* parseMeal: the blocks after the first map
    filtered,     \* parseMeal: the blocks after the two filters
    formatted,    \* parseMeal: the blocks after the second map
    meal,         \* parseMeal: [fault, items]
    parsePc,      \* "input" | "done"
    groupMeals,   \* groupMealsByDay: the argument built so far
    groupDays,    \* groupMealsByDay: the returned list of Days
    groupPc,      \* "input" | "done"
    essiesMeals,  \* parseEssies: the argument, at most one record
    essiesParts,  \* the number of fragments in the record's description
    essiesResult, \* parseEssies: the returned value
    essiesPc,     \* "input" | "done"
    feed,         \* handleRequest: what the menu service answers
    requestPath,  \* handleRequest: the path of the request
    handled,      \* handleRequest: [fault, response]
    served,       \* withTry(handleRequest): the response
    apiPc,        \* "input" | "done"
    menu,         \* withCache: what the menu service answers now
    cache,        \* caches.default: pathname -> at most one response
    events        \* the fetch events, each [url, pc, invoked, response]

sortVars == <<lst, newLst, sortPc>>

parseVars ==
    <<description, nBlocks, processed, filtered, formatted, meal, parsePc>>

groupVars == <<groupMeals, groupDays, groupPc>>

essiesVars == <<essiesMeals, essiesParts, essiesResult, essiesPc>>

apiVars == <<feed, requestPath, handled, served, apiPc>>

cacheVars == <<menu, cache, events>>

vars == <<sortVars, parseVars, groupVars, essiesVars, apiVars, cacheVars>>

\* The values of the variables of the operations a specification leaves alone.
NoMeal == [fault |-> FALSE, items |-> <<>>]

SortIdle == lst = <<>> /\ newLst = <<>> /\ sortPc = "idle"

ParseIdle ==
    /\ description = "" /\ nBlocks = 0
    /\ processed = <<>> /\ filtered = <<>> /\ formatted = <<>>
    /\ meal = NoMeal /\ parsePc = "idle"

GroupIdle == groupMeals = <<>> /\ groupDays = <<>> /\ groupPc = "idle"

EssiesIdle ==
    /\ essiesMeals = <<>> /\ essiesParts = 0
    /\ essiesResult = "" /\ essiesPc = "idle"

ApiIdle ==
    /\ feed = <<>> /\ requestPath = ""
    /\ handled = <<>> /\ served = <<>> /\ apiPc = "idle"

CacheIdle == menu = <<>> /\ cache = <<>> /\ events = <<>>

(***************************************************************************)
(* Strings                                                                 *)
(***************************************************************************)
\* s.charAt(i - 1): the empty string outside the string.
CharAt(s, i) == IF 1 <= i /\ i <= Len(s) THEN SubSeq(s, i, i) ELSE ""

StartsWithAt(s, p, i) ==
    /\ i >= 1
    /\ i + Len(p) - 1 <= Len(s)
    /\ SubSeq(s, i, i + Len(p) - 1) = p

startsWith(s, p) == StartsWithAt(s, p, 1)

includes(s, p) == \E i \in 1..(Len(s) - Len(p) + 1) : StartsWithAt(s, p, i)

IsSpace(c) == c \in {" ", "\t", "\n", "\r"}

lowerOf ==
    [A |-> "a", B |-> "b", C |-> "c", D |-> "d", E |-> "e", F |-> "f",
     G |-> "g", H |-> "h", I |-> "i", J |-> "j", K |-> "k", L |-> "l",
     M |-> "m", N |-> "n", O |-> "o", P |-> "p", Q |-> "q", R |-> "r",
     S |-> "s", T |-> "t", U |-> "u", V |-> "v", W |-> "w", X |-> "x",
     Y |-> "y", Z |-> "z"]

\* s.toLowerCase(), one half of the string after the other.
RECURSIVE toLowerCase(_)
toLowerCase(s) ==
    IF Len(s) <= 1 THEN (IF s \in DOMAIN lowerOf THEN lowerOf[s] ELSE s)
    ELSE toLowerCase(SubSeq(s, 1, Len(s) \div 2))
            \o toLowerCase(SubSeq(s, Len(s) \div 2 + 1, Len(s)))

\* The least number of a set of positions, 0 when the set is empty.
Least(hits) ==
    IF hits = {} THEN 0 ELSE CHOOSE j \in hits : \A k \in hits : j <= k

\* s from the first through the last position that holds no white space.
TrimTo(s, first, last) == IF first = 0 THEN "" ELSE SubSeq(s, first, last)

\* The last such position is the first one counted from the end.
trim(s) ==
    TrimTo(s, Least({j \in 1..Len(s) : ~IsSpace(CharAt(s, j))}),
           Len(s) + 1
              - Least({j \in 1..Len(s) : ~IsSpace(CharAt(s, Len(s) + 1 - j))}))

\* a.join(sep)
RECURSIVE join(_, _)
join(a, sep) ==
    IF a = <<>> THEN ""
    ELSE IF Len(a) = 1 THEN a[1]
    ELSE a[1] \o sep \o join(Tail(a), sep)

\* The first position >= from where character c occurs in s, 0 if none.
IndexOfChar(s, c, from) == Least({j \in from..Len(s) : CharAt(s, j) = c})

\* The first position >= from where p occurs in s, 0 if none.
indexOf(s, p, from) ==
    Least({j \in from..(Len(s) - Len(p) + 1) : StartsWithAt(s, p, j)})

(***************************************************************************)
(* Regular expressions.  A regular expression is a record; MatchLen is the *)
(* length of its match at position i of s, 0 when it does not match there  *)
(* (no regular expression of the source matches the empty string).         *)
(***************************************************************************)
\* A pattern that is a choice of literals, the preferred one first.  The
\* field first holds the characters a match can start with.
Literal(alts) ==
    [kind |-> "literal", alts |-> alts,
     first |-> {CharAt(alts[k], 1) : k \in 1..Len(alts)}]

Tag == [kind |-> "tag", first |-> {"<"}]

SpanOpen == [kind |-> "spanOpen", first |-> {"<"}]

UnknownToken == [kind |-> "unknownToken", first |-> {" "}]

BoldOpen == [kind |-> "boldOpen", first |-> {"<"}]

Special == [kind |-> "special", first |-> {"s", "S"}]

AltLen(alts, k) == IF k = 0 THEN 0 ELSE Len(alts[k])

LiteralLen(alts, s, i) ==
    AltLen(alts, Least({k \in 1..Len(alts) : StartsWithAt(s, alts[k], i)}))

\* The length from position i through position j, or through the end n of
\* the string when there is no j.
ThroughOrEnd(i, j, n) == IF j = 0 THEN n - i + 1 ELSE j - i + 1

\* The length from position i through position j, 0 when there is no j.
Through(i, j) == IF j = 0 THEN 0 ELSE j - i + 1

\* /<\/?[^>]+(>|$)/ : "<", at least one character that is not ">", then the
\* next ">" or the end of the string.
TagLen(s, i) ==
    IF CharAt(s, i) = "<" /\ i + 1 <= Len(s) /\ CharAt(s, i + 1) # ">"
    THEN ThroughOrEnd(i, IndexOfChar(s, ">", i + 1), Len(s))
    ELSE 0

\* /<span\s[^>]+>/
SpanOpenLen(s, i) ==
    IF /\ StartsWithAt(s, "<span", i)
       /\ i + 6 <= Len(s)
       /\ IsSpace(CharAt(s, i + 5))
       /\ CharAt(s, i + 6) # ">"
    THEN Through(i, IndexOfChar(s, ">", i + 6))
    ELSE 0

\* The token from i that the "::" at j closes: "." matches no line terminator.
TokenThrough(s, i, j) ==
    IF j = 0 \/ \E k \in (i + 3)..(j - 1) : CharAt(s, k) \in {"\n", "\r"}
    THEN 0
    ELSE j + 2 - i

\* / ::.*?::/ : a space, "::", the shortest run of characters other than
\* line terminators, "::".
UnknownTokenLen(s, i) ==
    IF StartsWithAt(s, " ::", i)
    THEN TokenThrough(s, i, indexOf(s, "::", i + 3))
    ELSE 0

\* The first position >= i of s that holds no white space.
SkipSpaces(s, i) == Least({j \in i..(Len(s) + 1) : ~IsSpace(CharAt(s, j))})

BoldClose(s, i, e) == IF CharAt(s, e) = ">" THEN e - i + 1 ELSE 0

BoldLetter(s, i, b) ==
    IF CharAt(s, b) = "b" THEN BoldClose(s, i, SkipSpaces(s, b + 1)) ELSE 0

\* /<\s*b\s*>/
BoldOpenLen(s, i) ==
    IF CharAt(s, i) = "<" THEN BoldLetter(s, i, SkipSpaces(s, i + 1)) ELSE 0

\* /special/i
SpecialLen(s, i) ==
    IF i + 6 <= Len(s) /\ toLowerCase(SubSeq(s, i, i + 6)) = "special"
    THEN 7 ELSE 0

MatchLen(rx, s, i) ==
    CASE rx.kind = "literal" -> LiteralLen(rx.alts, s, i)
      [] rx.kind = "tag" -> TagLen(s, i)
      [] rx.kind = "spanOpen" -> SpanOpenLen(s, i)
      [] rx.kind = "unknownToken" -> UnknownTokenLen(s, i)
      [] rx.kind = "boldOpen" -> BoldOpenLen(s, i)
      [] rx.kind = "special" -> SpecialLen(s, i)

\* The first position >= from where rx matches in s, 0 if none.
FirstMatch(rx, s, from) ==
    Least({j \in from..Len(s) :
             CharAt(s, j) \in rx.first /\ MatchLen(rx, s, j) > 0})

\* s.split(rx): the pieces of s between the matches of rx, from left to right.
RECURSIVE SplitFrom(_, _, _)
SplitAt(s, rx, from, i) ==
    IF i = 0 THEN <<SubSeq(s, from, Len(s))>>
    ELSE <<SubSeq(s, from, i - 1)>> \o SplitFrom(s, rx, i + MatchLen(rx, s, i))

SplitFrom(s, rx, from) ==
    SplitAt(s, rx, from, FirstMatch(rx, s, from))

split(s, rx) == SplitFrom(s, rx, 1)

\* s.replace(/rx/g, r): every match of rx, from left to right, replaced by r.
RECURSIVE ReplaceFrom(_, _, _, _)
ReplaceAt(s, rx, r, from, i) ==
    IF i = 0 THEN SubSeq(s, from, Len(s))
    ELSE SubSeq(s, from, i - 1) \o r
            \o ReplaceFrom(s, rx, r, i + MatchLen(rx, s, i))

ReplaceFrom(s, rx, r, from) ==
    ReplaceAt(s, rx, r, from, FirstMatch(rx, s, from))

replace(s, rx, r) == ReplaceFrom(s, rx, r, 1)

stripHtmlTags(s) == replace(s, Tag, "")

\* decode of html-entities, for the character references of the alphabet:
\* one pass from left to right, each reference replaced by its character.
entities ==
    << <<"&amp;", "&">>, <<"&lt;", "<">>, <<"&gt;", ">">>,
       <<"&quot;", "\"">>, <<"&#39;", "'">>, <<"&apos;", "'">> >>

\* The entity that stands at position i of s, 0 if none.
EntityAt(s, i) ==
    Least({k \in 1..Len(entities) : StartsWithAt(s, entities[k][1], i)})

RECURSIVE DecodeFrom(_, _)
DecodeEntity(s, from, i, e) ==
    SubSeq(s, from, i - 1) \o e[2] \o DecodeFrom(s, i + Len(e[1]))

DecodeAt(s, from, i) ==
    IF i = 0 THEN SubSeq(s, from, Len(s))
    ELSE DecodeEntity(s, from, i, entities[EntityAt(s, i)])

DecodeFrom(s, from) ==
    DecodeAt(s, from, Least({j \in from..Len(s) : EntityAt(s, j) > 0}))

decode(s) == DecodeFrom(s, 1)

(***************************************************************************)
(* sortMains                                                               *)
(***************************************************************************)
keywords ==
    << "taco", "chicken", "steak", "beef", "shrimp", "tofu", "seitan",
       "bacon", "sausage", "pork", "cod", "meatball", "tilapia", "salmon",
       "wing", "pizza", "pasta", "fried rice", "waffles", "french toast",
       "aloo gobi", "vindaloo" >>

AddNew(set, item) ==
    IF \E i \in 1..Len(set) : set[i] = item THEN set ELSE Append(set, item)

\* new Set(lst): the distinct strings of lst in the order of their first
\* insertion, which is the order a Set iterates in.
RECURSIVE NewSet(_)
NewSet(l) ==
    IF l = <<>> THEN <<>>
    ELSE AddNew(NewSet(SubSeq(l, 1, Len(l) - 1)), l[Len(l)])

Matches(item, keyword) == includes(toLowerCase(item), keyword)

Strong(item) == "<strong>" \o trim(item) \o "</strong>"

\* One pass of the inner loop: <<the items left in the set, newLst>>.
RECURSIVE InnerLoop(_, _, _, _)
InnerLoop(items, keyword, left, out) ==
    IF items = <<>> THEN <<left, out>>
    ELSE IF Matches(Head(items), keyword)
         THEN InnerLoop(Tail(items), keyword, left,
                        Append(out, Strong(Head(items))))
         ELSE InnerLoop(Tail(items), keyword, Append(left, Head(items)), out)

\* The outer loop from keyword k on: no pass changes an empty set.
RECURSIVE KeywordLoop(_, _)
KeywordLoop(k, state) ==
    IF k > Len(keywords) \/ state[1] = <<>> THEN state
    ELSE KeywordLoop(k + 1, InnerLoop(state[1], keywords[k], <<>>, state[2]))

RECURSIVE TrimAll(_)
TrimAll(items) ==
    IF items = <<>> THEN <<>> ELSE <<trim(Head(items))>> \o TrimAll(Tail(items))

\* The last loop: the items left in the set, trimmed, after newLst.
Remaining(state) == state[2] \o TrimAll(state[1])

\* The two loops of sortMains exchanged: items outermost, keywords innermost.
RECURSIVE ItemLoop(_, _, _)
ItemLoop(items, out, rest) ==
    IF items = <<>> THEN out \o TrimAll(rest)
    ELSE IF \E k \in 1..Len(keywords) : Matches(Head(items), keywords[k])
         THEN ItemLoop(Tail(items), Append(out, Strong(Head(items))), rest)
         ELSE ItemLoop(Tail(items), out, Append(rest, Head(items)))

sortMainsItemMajor(l) == ItemLoop(NewSet(l), <<>>, <<>>)

sortMains(l) == Remaining(KeywordLoop(1, <<NewSet(l), <<>>>>))

(***************************************************************************)
(* parseMeal                                                               *)
(***************************************************************************)
vegan == "<abbr class=\"tag vegan\" title=\"Vegan\">(v)</abbr>"
halal == "<abbr class=\"tag halal\" title=\"Halal\">(h)</abbr>"
veget == "<abbr class=\"tag veget\" title=\"Vegetarian\">(vg)</abbr>"
egg == "<abbr class=\"tag egg\" title=\"Egg\">(e)</abbr>"
milk == "<abbr class=\"tag milk\" title=\"Milk\">(m)</abbr>"
soy == "<abbr class=\"tag soy\" title=\"Soy\">(s)</abbr>"
wheat == "<abbr class=\"tag wheat\" title=\"Wheat\">(w)</abbr>"
fish == "<abbr class=\"tag fish\" title=\"Fish\">(f)</abbr>"
glutenfree == "<abbr class=\"tag gf\" title=\"Gluten Free\">(gf)</abbr>"
sesame == "<abbr class=\"tag sesame\" title=\"Sesame\">(ses)</abbr>"
alcohol == "<abbr class=\"tag alcohol\" title=\"Alcohol\">(a)</abbr>"

main1 == "<abbr title=\"Classics\">Main 1</abbr>:"
main2 == "<abbr title=\"World of Flavor\">Main 2</abbr>:"
main3 == "<abbr title=\"Spice of Life\">Main 3</abbr>:"
veganMain == "<abbr title=\"Verdant & Vegan\">Vegan Main</abbr>:"
salad == "<abbr title=\"Field of Greens\">Salad</abbr>:"
dessert == "<abbr title=\"Daily Kneads\">Dessert</abbr>:"
allergen == "<abbr title=\"Free Zone\">Allergen Choice</abbr>:"

order == <<main1, main2, main3, veganMain, allergen, salad, dessert>>

exclude == <<"Fired Up", "Grillin' Out">>

\* The dietary tokens with their markup, in the order of the replace calls.
dietaryTags ==
    << <<"::vegan::", vegan>>, <<"::halal::", halal>>,
       <<"::vegetarian::", veget>>, <<"::egg::", egg>>, <<"::milk::", milk>>,
       <<"::soy::", soy>>, <<"::wheat::", wheat>>, <<"::fish::", fish>>,
       <<"::gluten free::", glutenfree>>, <<"::sesame::", sesame>>,
       <<"::alcohol::", alcohol>> >>

\* The section names with their labels, in the order of the replace calls.
sectionLabels ==
    << <<Literal(<<"Classics:">>), main1>>,
       <<Literal(<<"World of Flavor:", "World Flavor:">>), main2>>,
       <<Literal(<<"Verdant & Vegan:">>), veganMain>>,
       <<Literal(<<"Daily Kneads:">>), dessert>>,
       <<Literal(<<"Free Zone:">>), allergen>>,
       <<Literal(<<"Spice of Life:", "Spice:">>), main3>>,
       <<Literal(<<"Field of Greens:", "Field of Green:">>), salad>> >>

RECURSIVE DietaryRules(_)
DietaryRules(k) ==
    IF k > Len(dietaryTags) THEN <<>>
    ELSE << <<Literal(<<dietaryTags[k][1]>>), dietaryTags[k][2]>> >>
            \o DietaryRules(k + 1)

\* The chain of replace calls of the first map, in order; / ::.*?::/g is the
\* rule for the tokens no other rule has replaced.
replacements == DietaryRules(1) \o << <<UnknownToken, "">> >> \o sectionLabels

\* The replace calls from rule k on: no rule matches in the empty string.
RECURSIVE ApplyFrom(_, _, _)
ApplyFrom(s, rules, k) ==
    IF k > Len(rules) \/ s = "" THEN s
    ELSE ApplyFrom(replace(s, rules[k][1], rules[k][2]), rules, k + 1)

\* The first map: one block of the description to its text.
ProcessBlock(item) ==
    ApplyFrom(trim(decode(stripHtmlTags(item))), replacements, 1)

RECURSIVE ProcessAll(_)
ProcessAll(blocks) ==
    IF blocks = <<>> THEN <<>>
    ELSE <<ProcessBlock(Head(blocks))>> \o ProcessAll(Tail(blocks))

\* Only the first name of the exclusion list looked at.
ExcludedFirstOnly(m) == startsWith(m, exclude[1])

Excluded(m) == \E e \in 1..Len(exclude) : startsWith(m, exclude[e])

\* The filter on exclude, then filter((m) => !!m).
Filtered(p) ==
    SelectSeq(SelectSeq(p, LAMBDA m : ~Excluded(m)), LAMBDA m : m # "")

\* items is undefined when the block has no ": ", and items.split throws.
Throws(item) == Len(split(item, Literal(<<": ">>))) < 2

\* .map((i) => i.replace(/^& /, ''))
RECURSIVE StripAll(_)
StripAll(items) ==
    IF items = <<>> THEN <<>>
    ELSE <<IF startsWith(Head(items), "& ")
           THEN SubSeq(Head(items), 3, Len(Head(items)))
           ELSE Head(items)>> \o StripAll(Tail(items))

\* title is titleAndItems[0] and items is titleAndItems[1].
FormatParts(titleAndItems) ==
    titleAndItems[1] \o ": "
        \o join(sortMains(StripAll(split(titleAndItems[2], Literal(<<", ">>)))),
                ", ")

\* A search that answers the length of the list when nothing is found.
FindIndexOrLength(item) ==
    IF \E k \in 1..Len(order) : startsWith(item, order[k])
    THEN Least({k \in 1..Len(order) : startsWith(item, order[k])}) - 1
    ELSE Len(order)

\* order.findIndex((value) => item.startsWith(value)), from 0, -1 if none.
findIndex(item) ==
    Least({k \in 1..Len(order) : startsWith(item, order[k])}) - 1

Compare(i1, i2) == findIndex(i1) - findIndex(i2)

\* Array.prototype.sort with a comparator is a stable sort: x goes in front
\* of the first element it compares less than.
RECURSIVE InsertSorted(_, _)
InsertSorted(a, x) ==
    IF a = <<>> THEN <<x>>
    ELSE IF Compare(x, Head(a)) < 0 THEN <<x>> \o a
    ELSE <<Head(a)>> \o InsertSorted(Tail(a), x)

RECURSIVE sort(_)
sort(a) ==
    IF a = <<>> THEN <<>>
    ELSE InsertSorted(sort(SubSeq(a, 1, Len(a) - 1)), a[Len(a)])

RECURSIVE Formatted(_)
Formatted(f) ==
    IF f = <<>> THEN <<>>
    ELSE <<FormatParts(split(Head(f), Literal(<<": ">>)))>>
            \o Formatted(Tail(f))

\* parseMeal's chain of calls on a description, each stage's value kept:
\* the second map throws when a block that passed the filters has no ": ".
StagesFormatted(p, f, throws, m) ==
    [processed |-> p, filtered |-> f, formatted |-> m,
     meal |-> [fault |-> throws, items |-> sort(m)]]

StagesThrows(p, f, throws) ==
    StagesFormatted(p, f, throws, IF throws THEN <<>> ELSE Formatted(f))

StagesFiltered(p, f) ==
    StagesThrows(p, f, \E i \in 1..Len(f) : Throws(f[i]))

StagesProcessed(p) == StagesFiltered(p, Filtered(p))

Stages(d) ==
    StagesProcessed(
        ProcessAll(split(replace(d, Literal(<<"</span>">>), ": "), SpanOpen)))

\* A DateTime is the record of its fields in the zone of the worker,
\* [weekday, monthShort, month, day, hour, minute]; DateTime.fromISO gives
\* the fields of the instant the feed names.
\* toFormat('h:mm'): the hour of the half day, the minute in two digits.
toFormatTime(dt) ==
    ToString(IF dt.hour % 12 = 0 THEN 12 ELSE dt.hour % 12) \o ":"
        \o (IF dt.minute < 10 THEN "0" ELSE "") \o ToString(dt.minute)

\* toFormat('ccc M/d')
toFormatDay(dt) ==
    dt.weekday \o " " \o ToString(dt.month) \o "/" \o ToString(dt.day)

\* The Meal parseMeal returns; fault when the items could not be built.
MealOf(m, parsed) ==
    [fault |-> parsed.fault,
     title |-> m.title,
     startdate |-> m.startdate,
     enddate |-> m.enddate,
     short_time |->
         toFormatTime(m.startdate) \o " to " \o toFormatTime(m.enddate),
     short_date |-> toFormatDay(m.startdate),
     items |-> parsed.items]

parseMeal(m) == MealOf(m, Stages(m.description).meal)

(***************************************************************************)
(* parseAndFilterMeals                                                     *)
(***************************************************************************)
RECURSIVE MapParseMeal(_)
MapParseMeal(rawMeals) ==
    IF rawMeals = <<>> THEN <<>>
    ELSE <<parseMeal(Head(rawMeals))>> \o MapParseMeal(Tail(rawMeals))

AnyFault(ms) == \E i \in 1..Len(ms) : ms[i].fault

\* The two filters on the parsed meals; a fault of parseMeal ends the call.
FilterMeals(ms) ==
    IF AnyFault(ms) THEN [fault |-> TRUE, meals |-> <<>>]
    ELSE [fault |-> FALSE,
          meals |->
              SelectSeq(SelectSeq(ms, LAMBDA m :
                                         m.title \in {"Brunch", "Lunch", "Dinner"}),
                        LAMBDA m : Len(m.items) > 0)]

parseAndFilterMeals(rawMeals) == FilterMeals(MapParseMeal(rawMeals))

(***************************************************************************)
(* groupMealsByDay.  days is the list of the Days in the order their keys  *)
(* were inserted (a short_date is never an integer key); an optional field *)
(* of a Day is a sequence of at most one Meal.                             *)
(***************************************************************************)
DayIndex(days, short_date) ==
    Least({i \in 1..Len(days) : days[i].short_date = short_date})

WithDay(days, someMeal) ==
    IF DayIndex(days, someMeal.short_date) = 0
    THEN Append(days, [short_date |-> someMeal.short_date,
                       lunch |-> <<>>, dinner |-> <<>>])
    ELSE days

\* A slot once filled is not filled again.
SetSlotKeepFirst(day, someMeal) ==
    CASE someMeal.title \in {"Brunch", "Lunch"} /\ day.lunch = <<>> ->
            [day EXCEPT !.lunch = <<someMeal>>]
      [] someMeal.title = "Dinner" /\ day.dinner = <<>> ->
            [day EXCEPT !.dinner = <<someMeal>>]
      [] OTHER -> day

\* The switch on meal.title.
SetSlot(day, someMeal) ==
    CASE someMeal.title \in {"Brunch", "Lunch"} ->
            [day EXCEPT !.lunch = <<someMeal>>]
      [] someMeal.title = "Dinner" -> [day EXCEPT !.dinner = <<someMeal>>]
      [] OTHER -> day

Assign(days, someMeal) ==
    [days EXCEPT ![DayIndex(days, someMeal.short_date)] = SetSlot(@, someMeal)]

RECURSIVE GroupLoop(_, _)
GroupLoop(someMeals, days) ==
    IF someMeals = <<>> THEN days
    ELSE GroupLoop(Tail(someMeals),
                   Assign(WithDay(days, Head(someMeals)), Head(someMeals)))

groupMealsByDay(someMeals) == GroupLoop(someMeals, <<>>)

(***************************************************************************)
(* parseEssies.  The result is [defined, value]; undefined is              *)
(* [defined |-> FALSE, value |-> ""].                                      *)
(***************************************************************************)
Undefined == [defined |-> FALSE, value |-> ""]

Defined(v) == [defined |-> TRUE, value |-> v]

HasSpecial(line) == includes(toLowerCase(line), "special")

\* decode(special).split(/special/i)[1] || ''
EssiesFood(parts) == IF Len(parts) < 2 THEN "" ELSE parts[2]

EssiesSpecial(lines) ==
    IF lines = <<>> THEN Undefined
    ELSE Defined(trim(stripHtmlTags(
             EssiesFood(split(decode(lines[1]), Special)))))

parseEssies(rawMeals) ==
    IF rawMeals = <<>> THEN Undefined
    ELSE EssiesSpecial(
             SelectSeq(split(rawMeals[1].description, BoldOpen), HasSpecial))

(***************************************************************************)
(* handleRequest and withTry.  rsp is [ok, today, upcoming, essies]: ok is *)
(* FALSE when fetch or json throws.  The outcome of the handler is         *)
(* [fault, response]; a Response is [status, headers, body], the body of   *)
(* the page being the view Mustache renders.                               *)
(***************************************************************************)
errorPage == "error.html"

NoResponse == [status |-> 0, headers |-> <<>>, body |-> ""]

Fault == [fault |-> TRUE, response |-> NoResponse]

Returns(response) == [fault |-> FALSE, response |-> response]

RECURSIVE StripTagsAll(_)
StripTagsAll(items) ==
    IF items = <<>> THEN <<>>
    ELSE <<stripHtmlTags(Head(items))>> \o StripTagsAll(Tail(items))

\* An answer as soon as one meal is there, the dinner read from the last.
ApiResponseOfOneMeal(today) ==
    IF Len(today) < 1 THEN Fault
    ELSE Returns([status |-> 200, headers |-> <<>>,
                  body |-> [lunch_time |-> today[1].short_time,
                            lunch |-> StripTagsAll(today[1].items),
                            dinner_time |-> today[Len(today)].short_time,
                            dinner |-> StripTagsAll(today[Len(today)].items)]])

\* today[0] or today[1] undefined: reading short_time throws.
ApiResponse(today) ==
    IF Len(today) < 2 THEN Fault
    ELSE Returns([status |-> 200, headers |-> <<>>,
                  body |-> [lunch_time |-> today[1].short_time,
                            lunch |-> StripTagsAll(today[1].items),
                            dinner_time |-> today[2].short_time,
                            dinner |-> StripTagsAll(today[2].items)]])

PageOfUpcoming(rsp, now, breakfast, today, upcoming) ==
    IF upcoming.fault THEN Fault
    ELSE Returns([status |-> 200,
                  headers |-> <<<<"content-type", "text/html">>>>,
                  body |-> [date |-> now.monthShort \o " " \o ToString(now.day),
                            breakfast |-> breakfast,
                            today |-> today,
                            upcoming |-> groupMealsByDay(upcoming.meals),
                            essies |-> parseEssies(rsp.essies)]])

PageResponse(rsp, now, breakfast, today) ==
    PageOfUpcoming(rsp, now, breakfast, today,
                   parseAndFilterMeals(rsp.upcoming))

\* breakfast is .map((m) => m.short_time)[0] of the parsed Breakfast meals.
HandleToday(rsp, pathname, now, breakfast, today) ==
    IF today.fault THEN Fault
    ELSE IF pathname = "/api" THEN ApiResponse(today.meals)
    ELSE PageResponse(rsp, now,
                      IF breakfast = <<>> THEN Undefined
                      ELSE Defined(breakfast[1].short_time),
                      today.meals)

HandleBreakfast(rsp, pathname, now, breakfast) ==
    IF AnyFault(breakfast) THEN Fault
    ELSE HandleToday(rsp, pathname, now, breakfast,
                     parseAndFilterMeals(rsp.today))

handleRequest(rsp, pathname, now) ==
    IF ~rsp.ok THEN Fault
    ELSE HandleBreakfast(rsp, pathname, now,
                         MapParseMeal(SelectSeq(rsp.today,
                                                LAMBDA m : m.title = "Breakfast")))

withTry(outcome) ==
    IF outcome.fault
    THEN [status |-> 500,
          headers |-> <<<<"content-type", "text/html">>>>,
          body |-> errorPage]
    ELSE outcome.response

(***************************************************************************)
(* withCache                                                               *)
(***************************************************************************)
\* Every response is put into the cache.
StorableAlways(response) == TRUE

\* response.status === 200
Storable(response) == response.status = 200

(***************************************************************************)
(* Specification SpecParse: parseMeal applied to every description made of *)
(* at most MaxBlocks fragments of FragmentPool.                            *)
(***************************************************************************)
MaxBlocks == 3

FragmentPool ==
    { "<span class=\"s\">Classics</span>Beef Taco ::vegan::, & Rice, Rice",
      "<span class=\"s\">World Flavor</span>Rice ::nuts:: ::halal::, Chicken",
      "<span class=\"s\">Grillin&#39; Out</span>Hot Dog",
      "<span class=\"s\">Fired Up</span>Burger",
      "<span class=\"s\">Soup</span>Tomato &amp; Basil",
      "<span class=\"s\">Deli</span><i>Ham</i>::nuts::",
      "<span class=\"s\">Classics</span>Pasta",
      "Welcome" }

ParseInit ==
    /\ description = ""
    /\ nBlocks = 0
    /\ processed = <<>>
    /\ filtered = <<>>
    /\ formatted = <<>>
    /\ meal = NoMeal
    /\ parsePc = "input"
    /\ SortIdle /\ GroupIdle /\ EssiesIdle /\ ApiIdle /\ CacheIdle

AppendFragment ==
    /\ parsePc = "input"
    /\ nBlocks < MaxBlocks
    /\ \E f \in FragmentPool : description' = description \o f
    /\ nBlocks' = nBlocks + 1
    /\ UNCHANGED <<processed, filtered, formatted, meal, parsePc>>
    /\ UNCHANGED <<sortVars, groupVars, essiesVars, apiVars, cacheVars>>

Parsed(st) ==
    /\ processed' = st.processed
    /\ filtered' = st.filtered
    /\ formatted' = st.formatted
    /\ meal' = st.meal

CallParseMeal ==
    /\ parsePc = "input"
    /\ Parsed(Stages(description))
    /\ parsePc' = "done"
    /\ UNCHANGED <<description, nBlocks>>
    /\ UNCHANGED <<sortVars, groupVars, essiesVars, apiVars, cacheVars>>

ParseNext == AppendFragment \/ CallParseMeal

SpecParse == ParseInit /\ [][ParseNext]_vars

(***************************************************************************)
(* Specification SpecSort: sortMains applied to every list of at most      *)
(* MaxItems items of ItemPool.                                             *)
(***************************************************************************)
MaxItems == 3

ItemPool ==
    { "Beef Taco", "Chicken Wings", "chicken", "Rice", "Rice ", " Peas",
      "Fried Rice" }

SortInit ==
    /\ lst = <<>>
    /\ newLst = <<>>
    /\ sortPc = "input"
    /\ ParseIdle /\ GroupIdle /\ EssiesIdle /\ ApiIdle /\ CacheIdle

PushItem ==
    /\ sortPc = "input"
    /\ Len(lst) < MaxItems
    /\ \E item \in ItemPool : lst' = Append(lst, item)
    /\ UNCHANGED <<newLst, sortPc>>
    /\ UNCHANGED <<parseVars, groupVars, essiesVars, apiVars, cacheVars>>

CallSortMains ==
    /\ sortPc = "input"
    /\ newLst' = sortMains(lst)
    /\ sortPc' = "done"
    /\ UNCHANGED lst
    /\ UNCHANGED <<parseVars, groupVars, essiesVars, apiVars, cacheVars>>

SortNext == PushItem \/ CallSortMains

SpecSort == SortInit /\ [][SortNext]_vars

\* An element of the returned list without its <strong> wrapper.
Unwrap(o) ==
    IF startsWith(o, "<strong>") /\ Len(o) >= 17
       /\ SubSeq(o, Len(o) - 8, Len(o)) = "</strong>"
    THEN SubSeq(o, 9, Len(o) - 9)
    ELSE o

IsBold(o) == startsWith(o, "<strong>")

MatchesAny(item) == \E k \in 1..Len(keywords) : Matches(item, keywords[k])

\* The index of the first keyword the item matches, Len(keywords) + 1 if none.
FirstKeyword(item) ==
    IF MatchesAny(item)
    THEN CHOOSE k \in 1..Len(keywords) :
            /\ Matches(item, keywords[k])
            /\ \A j \in 1..(k - 1) : ~Matches(item, keywords[j])
    ELSE Len(keywords) + 1

\* C1: the items of the list sortMains returns (without the <strong>
\* wrapper, trimmed) are the items of its argument (trimmed), no item is
\* there twice, and every argument that matches no keyword is there.
C1_DistinctItems ==
    sortPc = "done" =>
        LET outItem(i) == trim(Unwrap(newLst[i]))
        IN /\ {outItem(i) : i \in 1..Len(newLst)}
                = {trim(lst[i]) : i \in 1..Len(lst)}
           /\ \A i, j \in 1..Len(newLst) : i # j => outItem(i) # outItem(j)
           /\ \A i \in 1..Len(lst) :
                 ~MatchesAny(lst[i])
                    => \E j \in 1..Len(newLst) : newLst[j] = trim(lst[i])

\* C2 as stated: no item that matches some earlier keyword comes after an
\* item that matches some later keyword, and every bolded item precedes
\* every item that is not bolded.
C2_AnyKeywordOrder ==
    sortPc = "done" =>
        /\ \A i, j \in 1..Len(newLst) : \A k1, k2 \in 1..Len(keywords) :
              (i < j /\ k1 < k2) =>
                 ~(Matches(Unwrap(newLst[j]), keywords[k1])
                     /\ Matches(Unwrap(newLst[i]), keywords[k2]))
        /\ \A i, j \in 1..Len(newLst) :
              (IsBold(newLst[i]) /\ ~IsBold(newLst[j])) => i < j

\* C2 as amended: the returned list is ordered by the first keyword each
\* item matches; an item is bolded exactly when it matches a keyword, and
\* every bolded item precedes every item that is not bolded.
C2_FirstKeywordOrder ==
    sortPc = "done" =>
        /\ \A i, j \in 1..Len(newLst) :
              i < j => FirstKeyword(Unwrap(newLst[i]))
                          <= FirstKeyword(Unwrap(newLst[j]))
        /\ \A i \in 1..Len(newLst) :
              IsBold(newLst[i]) <=> MatchesAny(Unwrap(newLst[i]))
        /\ \A i, j \in 1..Len(newLst) :
              (IsBold(newLst[i]) /\ ~IsBold(newLst[j])) => i < j

\* sortMains has moved an item of a later position in front of an item of
\* an earlier one with a later first keyword, and an unmatched item is last.
C2_Witness ==
    /\ sortPc = "done"
    /\ Len(lst) = 3 /\ Len(newLst) = 3
    /\ ~MatchesAny(lst[1])
    /\ FirstKeyword(lst[3]) < FirstKeyword(lst[2])
    /\ FirstKeyword(lst[2]) <= Len(keywords)
    /\ newLst = <<Strong(lst[3]), Strong(lst[2]), trim(lst[1])>>


(***************************************************************************)
(* parseMeal: the claims                                                   *)
(***************************************************************************)
\* The ordering key of a block: the place, from 0, of the first label of
\* order the block starts with, -1 when it starts with none.
OrderingKey(b) ==
    IF \E k \in 1..Len(order) : startsWith(b, order[k])
    THEN (CHOOSE k \in 1..Len(order) :
            /\ startsWith(b, order[k])
            /\ \A j \in 1..(k - 1) : ~startsWith(b, order[j])) - 1
    ELSE -1

\* The blocks of a that have the key, in their order in a.
RECURSIVE WithKey(_, _)
WithKey(a, key) ==
    IF a = <<>> THEN <<>>
    ELSE IF OrderingKey(Head(a)) = key
         THEN <<Head(a)>> \o WithKey(Tail(a), key)
         ELSE WithKey(Tail(a), key)

\* C3: the items parseMeal returns are the blocks of the second map in
\* ascending order of their ordering key, the blocks that start with no
\* label (key -1) first, and the blocks of one key in their input order.
C3_StableSortByKey ==
    (parsePc = "done" /\ ~meal.fault) =>
        /\ Len(meal.items) = Len(formatted)
        /\ \A i, j \in 1..Len(meal.items) :
              i < j => OrderingKey(meal.items[i]) <= OrderingKey(meal.items[j])
        /\ \A key \in -1..(Len(order) - 1) :
              WithKey(meal.items, key) = WithKey(formatted, key)

\* parseMeal has moved two different blocks without a label, in their input
\* order, in front of a labelled block that came first.
C3_Witness ==
    /\ parsePc = "done" /\ ~meal.fault
    /\ Len(formatted) = 3
    /\ OrderingKey(formatted[1]) = 0
    /\ OrderingKey(formatted[2]) = -1
    /\ OrderingKey(formatted[3]) = -1
    /\ formatted[2] # formatted[3]
    /\ meal.items = <<formatted[2], formatted[3], formatted[1]>>

\* C5: parseMeal returns an item list for every description; it never
\* faults.
C5_ParseMealNeverFaults == parsePc = "done" => ~meal.fault

\* A text holds a raw token: "::", then "::" again on the same line.
HasRawToken(s) ==
    \E i \in 1..Len(s) :
        /\ StartsWithAt(s, "::", i)
        /\ \E j \in (i + 2)..Len(s) :
              /\ StartsWithAt(s, "::", j)
              /\ \A k \in (i + 2)..(j - 1) : CharAt(s, k) \notin {"\n", "\r"}

\* C9: after the first map no block holds a known dietary token or any
\* other raw ::token::, and no element of Meal.items holds one.
C9_NoRawToken ==
    parsePc = "done" =>
        /\ \A i \in 1..Len(processed) :
              /\ \A t \in 1..Len(dietaryTags) :
                    ~includes(processed[i], dietaryTags[t][1])
              /\ ~HasRawToken(processed[i])
        /\ \A i \in 1..Len(meal.items) : ~HasRawToken(meal.items[i])

\* A block of the first map that is neither empty nor starts with the name
\* of an excluded section.
Survives(b) ==
    b # "" /\ ~startsWith(b, "Fired Up") /\ ~startsWith(b, "Grillin' Out")

\* The place in processed of the n-th block that survives.
SurvivorIndex(n) ==
    CHOOSE i \in 1..Len(processed) :
        /\ Survives(processed[i])
        /\ Cardinality({j \in 1..i : Survives(processed[j])}) = n

\* C7: the filters keep exactly the blocks that are not empty and do not
\* start with "Fired Up" or "Grillin' Out", in their input order, and no
\* item parseMeal returns starts with one of these names.
C7_ExcludedBlocksDropped ==
    parsePc = "done" =>
        /\ Len(filtered)
              = Cardinality({i \in 1..Len(processed) : Survives(processed[i])})
        /\ \A n \in 1..Len(filtered) : filtered[n] = processed[SurvivorIndex(n)]
        /\ ~meal.fault =>
              /\ Len(meal.items) = Len(filtered)
              /\ \A i \in 1..Len(meal.items) : Survives(meal.items[i])

\* parseMeal has dropped an empty block and an excluded block that stood
\* between two blocks it has kept.
C7_Witness ==
    /\ parsePc = "done" /\ ~meal.fault
    /\ Len(processed) = 4
    /\ processed[1] = ""
    /\ Survives(processed[2])
    /\ startsWith(processed[3], "Grillin' Out")
    /\ Survives(processed[4])
    /\ filtered = <<processed[2], processed[4]>>
    /\ Len(meal.items) = 2


(***************************************************************************)
(* Specification SpecGroup: groupMealsByDay applied to every list of at    *)
(* most MaxMeals meals of MealPool, meals as parseAndFilterMeals returns   *)
(* them.                                                                   *)
(***************************************************************************)
MaxMeals == 3

At(weekday, day, hour, minute) ==
    [weekday |-> weekday, monthShort |-> "Mar", month |-> 3, day |-> day,
     hour |-> hour, minute |-> minute]

RawMealOf(title, startdate, enddate, text) ==
    [title |-> title, startdate |-> startdate, enddate |-> enddate,
     description |-> text]

SoupOnly == [fault |-> FALSE, items |-> <<"Soup: Pea">>]

MealPool ==
    { MealOf(RawMealOf("Brunch", At("Mon", 4, 10, 30), At("Mon", 4, 14, 0), ""),
             SoupOnly),
      MealOf(RawMealOf("Lunch", At("Mon", 4, 11, 0), At("Mon", 4, 14, 0), ""),
             SoupOnly),
      MealOf(RawMealOf("Lunch", At("Mon", 4, 12, 5), At("Mon", 4, 14, 0), ""),
             SoupOnly),
      MealOf(RawMealOf("Dinner", At("Mon", 4, 16, 30), At("Mon", 4, 20, 0), ""),
             SoupOnly),
      MealOf(RawMealOf("Dinner", At("Mon", 4, 17, 0), At("Mon", 4, 20, 0), ""),
             SoupOnly),
      MealOf(RawMealOf("Brunch", At("Tue", 5, 10, 30), At("Tue", 5, 14, 0), ""),
             SoupOnly),
      MealOf(RawMealOf("Lunch", At("Tue", 5, 11, 0), At("Tue", 5, 14, 0), ""),
             SoupOnly),
      MealOf(RawMealOf("Dinner", At("Tue", 5, 16, 30), At("Tue", 5, 20, 0), ""),
             SoupOnly) }

GroupInit ==
    /\ groupMeals = <<>>
    /\ groupDays = <<>>
    /\ groupPc = "input"
    /\ SortIdle /\ ParseIdle /\ EssiesIdle /\ ApiIdle /\ CacheIdle

PushMeal ==
    /\ groupPc = "input"
    /\ Len(groupMeals) < MaxMeals
    /\ \E m \in MealPool : groupMeals' = Append(groupMeals, m)
    /\ UNCHANGED <<groupDays, groupPc>>
    /\ UNCHANGED <<sortVars, parseVars, essiesVars, apiVars, cacheVars>>

CallGroupMealsByDay ==
    /\ groupPc = "input"
    /\ groupDays' = groupMealsByDay(groupMeals)
    /\ groupPc' = "done"
    /\ UNCHANGED groupMeals
    /\ UNCHANGED <<sortVars, parseVars, essiesVars, apiVars, cacheVars>>

GroupNext == PushMeal \/ CallGroupMealsByDay

SpecGroup == GroupInit /\ [][GroupNext]_vars

(***************************************************************************)
(* Specification SpecEssies: parseEssies applied to the empty batch and to *)
(* every batch of one record whose description is made of at most MaxParts *)
(* fragments of PartPool.                                                  *)
(***************************************************************************)
MaxParts == 3

PartPool ==
    { "Open 9 to 5 ", "<b>", "< b >", "Special: ",
      "Chef special burger", "<i>SPECIAL</i> fries &amp; dip " }

EssiesInit ==
    /\ essiesMeals = <<>>
    /\ essiesParts = 0
    /\ essiesResult = ""
    /\ essiesPc = "input"
    /\ SortIdle /\ ParseIdle /\ GroupIdle /\ ApiIdle /\ CacheIdle

AddRecord ==
    /\ essiesPc = "input"
    /\ essiesMeals = <<>>
    /\ essiesMeals' = <<RawMealOf("Essie Mae's", At("Mon", 4, 8, 0),
                                  At("Mon", 4, 23, 0), "")>>
    /\ UNCHANGED <<essiesParts, essiesResult, essiesPc>>
    /\ UNCHANGED <<sortVars, parseVars, groupVars, apiVars, cacheVars>>

AppendPart ==
    /\ essiesPc = "input"
    /\ essiesMeals # <<>>
    /\ essiesParts < MaxParts
    /\ \E part \in PartPool :
          essiesMeals' =
              [essiesMeals EXCEPT ![1].description = @ \o part]
    /\ essiesParts' = essiesParts + 1
    /\ UNCHANGED <<essiesResult, essiesPc>>
    /\ UNCHANGED <<sortVars, parseVars, groupVars, apiVars, cacheVars>>

CallParseEssies ==
    /\ essiesPc = "input"
    /\ essiesResult' = parseEssies(essiesMeals)
    /\ essiesPc' = "done"
    /\ UNCHANGED <<essiesMeals, essiesParts>>
    /\ UNCHANGED <<sortVars, parseVars, groupVars, apiVars, cacheVars>>

EssiesNext == AddRecord \/ AppendPart \/ CallParseEssies

SpecEssies == EssiesInit /\ [][EssiesNext]_vars

(***************************************************************************)
(* groupMealsByDay: the claim                                              *)
(***************************************************************************)
\* The places of groupMeals where a short_date is seen for the first time.
FirstSeen ==
    {i \in 1..Len(groupMeals) :
        \A j \in 1..(i - 1) :
            groupMeals[j].short_date # groupMeals[i].short_date}

\* The k-th place of FirstSeen.
FirstSeenAt(k) ==
    CHOOSE i \in FirstSeen : Cardinality({j \in FirstSeen : j <= i}) = k

\* The last meal of the date with one of the titles, as a list of at most
\* one meal.
LastOf(short_date, titles) ==
    IF \E i \in 1..Len(groupMeals) :
          groupMeals[i].short_date = short_date /\ groupMeals[i].title \in titles
    THEN <<groupMeals[
             CHOOSE i \in 1..Len(groupMeals) :
                /\ groupMeals[i].short_date = short_date
                /\ groupMeals[i].title \in titles
                /\ \A j \in (i + 1)..Len(groupMeals) :
                      ~(/\ groupMeals[j].short_date = short_date
                        /\ groupMeals[j].title \in titles)]>>
    ELSE <<>>

\* C4: groupMealsByDay returns one Day per distinct short_date, in the order
\* the dates are first seen; the lunch of a Day is the last Brunch or Lunch
\* of its date, its dinner the last Dinner of its date, each absent when the
\* date has none.
C4_OneDayPerDateLastWins ==
    groupPc = "done" =>
        /\ Len(groupDays) = Cardinality(FirstSeen)
        /\ \A k \in 1..Len(groupDays) :
              /\ groupDays[k].short_date = groupMeals[FirstSeenAt(k)].short_date
              /\ Len(groupDays[k].lunch) <= 1
              /\ Len(groupDays[k].dinner) <= 1
              /\ groupDays[k].lunch
                    = LastOf(groupDays[k].short_date, {"Brunch", "Lunch"})
              /\ groupDays[k].dinner
                    = LastOf(groupDays[k].short_date, {"Dinner"})

\* groupMealsByDay has put a Lunch in the place of the Brunch of the same
\* date, a meal of another date standing between the two.
C4_Witness ==
    /\ groupPc = "done"
    /\ Len(groupMeals) = 3
    /\ groupMeals[1].title = "Brunch"
    /\ groupMeals[3].title = "Lunch"
    /\ groupMeals[1].short_date = groupMeals[3].short_date
    /\ groupMeals[2].short_date # groupMeals[1].short_date
    /\ groupMeals[2].title = "Dinner"
    /\ Len(groupDays) = 2
    /\ groupDays[1].lunch = <<groupMeals[3]>>
    /\ groupDays[2].dinner = <<groupMeals[2]>>

(***************************************************************************)
(* parseEssies: the claim                                                  *)
(***************************************************************************)
\* The segments of the first record's description that hold "special".
SpecialSegments ==
    SelectSeq(split(essiesMeals[1].description, BoldOpen), HasSpecial)

\* Everything after the first occurrence of "special", whatever its case.
AfterAt(text, i) == IF i = 0 THEN "" ELSE SubSeq(text, i + 7, Len(text))

AfterFirstSpecial(text) == AfterAt(text, FirstMatch(Special, text, 1))

\* C8: parseEssies returns undefined exactly when there is no first record
\* or no segment with "special"; otherwise it returns everything after the
\* first "special" of the decoded first such segment, tags stripped and
\* trimmed.
C8_EverythingAfterFirstSpecial ==
    essiesPc = "done" =>
        IF essiesMeals = <<>> \/ SpecialSegments = <<>>
        THEN essiesResult = Undefined
        ELSE essiesResult
                = Defined(trim(stripHtmlTags(
                      AfterFirstSpecial(decode(SpecialSegments[1])))))


(***************************************************************************)
(* Specification SpecApi: withTry(handleRequest) applied to every answer   *)
(* of the menu service of at most MaxFeed records, on both paths, the      *)
(* fetch failing or not.                                                   *)
(***************************************************************************)
MaxFeed == 2

Now == At("Mon", 4, 12, 0)

Paths == {"/", "/api"}

TodayPool ==
    { RawMealOf("Breakfast", At("Mon", 4, 7, 30), At("Mon", 4, 10, 0),
                "<span class=\"s\">Grains</span>Oats"),
      RawMealOf("Brunch", At("Mon", 4, 10, 30), At("Mon", 4, 14, 0),
                "<span class=\"s\">Soup</span>Pea"),
      RawMealOf("Lunch", At("Mon", 4, 11, 0), At("Mon", 4, 14, 0),
                "<span class=\"s\">Classics</span>Beef ::vegan::"),
      RawMealOf("Lunch", At("Mon", 4, 11, 15), At("Mon", 4, 14, 0),
                "<span class=\"s\">Fired Up</span>Burger"),
      RawMealOf("Dinner", At("Mon", 4, 16, 30), At("Mon", 4, 20, 0),
                "<span class=\"s\">Soup</span>Leek"),
      RawMealOf("Dinner", At("Mon", 4, 17, 0), At("Mon", 4, 20, 5),
                "Closed") }

UpcomingPool ==
    { RawMealOf("Lunch", At("Tue", 5, 11, 0), At("Tue", 5, 14, 0),
                "<span class=\"s\">Soup</span>Pea"),
      RawMealOf("Dinner", At("Tue", 5, 16, 30), At("Tue", 5, 20, 0),
                "<span class=\"s\">Soup</span>Leek"),
      RawMealOf("Dinner", At("Wed", 6, 16, 30), At("Wed", 6, 20, 0),
                "Closed") }

EssiesPool ==
    { RawMealOf("Essie Mae's", At("Mon", 4, 8, 0), At("Mon", 4, 23, 0),
                "<b>Special:</b> Chili"),
      RawMealOf("Essie Mae's", At("Mon", 4, 8, 0), At("Mon", 4, 23, 0),
                "Open late") }

FeedSize == Len(feed.today) + Len(feed.upcoming) + Len(feed.essies)

ApiInit ==
    /\ feed = [ok |-> TRUE, today |-> <<>>, upcoming |-> <<>>, essies |-> <<>>]
    /\ requestPath = ""
    /\ handled = Fault
    /\ served = NoResponse
    /\ apiPc = "input"
    /\ SortIdle /\ ParseIdle /\ GroupIdle /\ EssiesIdle /\ CacheIdle

AddToday ==
    /\ apiPc = "input"
    /\ FeedSize < MaxFeed
    /\ \E m \in TodayPool : feed' = [feed EXCEPT !.today = Append(@, m)]
    /\ UNCHANGED <<requestPath, handled, served, apiPc>>
    /\ UNCHANGED <<sortVars, parseVars, groupVars, essiesVars, cacheVars>>

AddUpcoming ==
    /\ apiPc = "input"
    /\ FeedSize < MaxFeed
    /\ \E m \in UpcomingPool : feed' = [feed EXCEPT !.upcoming = Append(@, m)]
    /\ UNCHANGED <<requestPath, handled, served, apiPc>>
    /\ UNCHANGED <<sortVars, parseVars, groupVars, essiesVars, cacheVars>>

AddEssies ==
    /\ apiPc = "input"
    /\ FeedSize < MaxFeed
    /\ \E m \in EssiesPool : feed' = [feed EXCEPT !.essies = Append(@, m)]
    /\ UNCHANGED <<requestPath, handled, served, apiPc>>
    /\ UNCHANGED <<sortVars, parseVars, groupVars, essiesVars, cacheVars>>

\* One request: the fetch of the handler fails or answers the feed.
Request ==
    /\ apiPc = "input"
    /\ \E p \in Paths, ok \in BOOLEAN :
          /\ requestPath' = p
          /\ feed' = [feed EXCEPT !.ok = ok]
          /\ handled' = handleRequest(feed', p, Now)
          /\ served' = withTry(handled')
    /\ apiPc' = "done"
    /\ UNCHANGED <<sortVars, parseVars, groupVars, essiesVars, cacheVars>>

ApiNext == AddToday \/ AddUpcoming \/ AddEssies \/ Request

SpecApi == ApiInit /\ [][ApiNext]_vars

(***************************************************************************)
(* handleRequest: the claim                                                *)
(***************************************************************************)
\* The value of the local today of the request that was handled.
Today == parseAndFilterMeals(feed.today)

IsLunchThenDinner(ms) ==
    /\ Len(ms) >= 2
    /\ ms[1].title \in {"Brunch", "Lunch"}
    /\ ms[2].title = "Dinner"

ReportsFirstTwo(body, ms) ==
    /\ body.lunch_time = ms[1].short_time
    /\ body.lunch = StripTagsAll(ms[1].items)
    /\ body.dinner_time = ms[2].short_time
    /\ body.dinner = StripTagsAll(ms[2].items)

ServesErrorPage == served.status = 500 /\ served.body = errorPage

\* C6 as stated: on /api the answer reports today[0] and today[1], and the
\* request ends in the status-500 error page whenever today[0] is not the
\* lunch (or brunch) or today[1] is not the dinner.
C6_FaultWheneverNotLunchThenDinner ==
    (apiPc = "done" /\ requestPath = "/api") =>
        /\ served.status = 200 => ReportsFirstTwo(served.body, Today.meals)
        /\ (feed.ok /\ ~Today.fault /\ ~IsLunchThenDinner(Today.meals))
              => ServesErrorPage

\* C6 corrected: on /api the request ends in the status-500 error page when
\* the fetch fails, when parseMeal faults, or when fewer than two meals are
\* left in today; otherwise the answer has status 200 and reports today[0]
\* as the lunch and today[1] as the dinner, whatever their titles.
C6_FaultIffFewerThanTwoMeals ==
    (apiPc = "done" /\ requestPath = "/api") =>
        IF ~feed.ok \/ Today.fault \/ Len(Today.meals) < 2
        THEN ServesErrorPage /\ handled.fault
        ELSE /\ served.status = 200
             /\ ~handled.fault
             /\ ReportsFirstTwo(served.body, Today.meals)

\* An /api request has ended in the error page because one of the two meals
\* of the day was filtered out.
C6_Witness ==
    /\ apiPc = "done" /\ requestPath = "/api"
    /\ feed.ok
    /\ Len(feed.today) = 2
    /\ ~Today.fault
    /\ Len(Today.meals) = 1
    /\ ServesErrorPage

(***************************************************************************)
(* Specification SpecCache: at most MaxEvents fetch events through         *)
(* withCache(withTry(handleRequest)).  An event is [url, pc, invoked,      *)
(* response]; its pc is "match" (awaiting caches.default.match), "handler" *)
(* (awaiting the handler), "put" (answered, cache.put under way) or "done".*)
(***************************************************************************)
MaxEvents == 2

MenuPool ==
    { [today |-> << RawMealOf("Lunch", At("Mon", 4, 11, 0), At("Mon", 4, 14, 0),
                              "<span class=\"s\">Soup</span>Pea"),
                    RawMealOf("Dinner", At("Mon", 4, 16, 30),
                              At("Mon", 4, 20, 0),
                              "<span class=\"s\">Soup</span>Leek") >>,
       upcoming |-> <<>>, essies |-> <<>>],
      [today |-> << RawMealOf("Lunch", At("Mon", 4, 11, 0), At("Mon", 4, 14, 0),
                              "<span class=\"s\">Soup</span>Pea") >>,
       upcoming |-> <<>>, essies |-> <<>>] }

CacheInit ==
    /\ menu \in MenuPool
    /\ cache = [p \in Paths |-> <<>>]
    /\ events = <<>>
    /\ SortIdle /\ ParseIdle /\ GroupIdle /\ EssiesIdle /\ ApiIdle

\* addEventListener('fetch', ...): a request arrives.
Receive ==
    /\ Len(events) < MaxEvents
    /\ \E p \in Paths :
          events' = Append(events, [url |-> p, pc |-> "match",
                                    invoked |-> FALSE,
                                    response |-> NoResponse])
    /\ UNCHANGED <<menu, cache>>
    /\ UNCHANGED <<sortVars, parseVars, groupVars, essiesVars, apiVars>>

\* caches.default.match answers: the cached response is returned, or the
\* handler is invoked and runs up to its fetch.
Match ==
    /\ \E i \in 1..Len(events) :
          /\ events[i].pc = "match"
          /\ events' =
                [events EXCEPT ![i] =
                    IF cache[events[i].url] # <<>>
                    THEN [@ EXCEPT !.pc = "done",
                                   !.response = cache[events[i].url][1]]
                    ELSE [@ EXCEPT !.pc = "handler", !.invoked = TRUE]]
    /\ UNCHANGED <<menu, cache>>
    /\ UNCHANGED <<sortVars, parseVars, groupVars, essiesVars, apiVars>>

\* The rest of withCache once the handler has answered: a response to store
\* is copied and gets the Cache-Control header.
Answered(e, r) ==
    IF Storable(r)
    THEN [e EXCEPT
            !.pc = "put",
            !.response =
                [r EXCEPT !.headers =
                              Append(@, <<"Cache-Control", "s-maxage=300">>)]]
    ELSE [e EXCEPT !.pc = "done", !.response = r]

\* The handler answers, its fetch having failed or not.
HandlerReturns ==
    /\ \E i \in 1..Len(events), ok \in BOOLEAN :
          /\ events[i].pc = "handler"
          /\ events' =
                [events EXCEPT ![i] =
                    Answered(@, withTry(handleRequest(
                        [ok |-> ok, today |-> menu.today,
                         upcoming |-> menu.upcoming, essies |-> menu.essies],
                        events[i].url, Now)))]
    /\ UNCHANGED <<menu, cache>>
    /\ UNCHANGED <<sortVars, parseVars, groupVars, essiesVars, apiVars>>

\* cache.put(cacheKey, response.clone()) completes.
Put ==
    /\ \E i \in 1..Len(events) :
          /\ events[i].pc = "put"
          /\ cache' = [cache EXCEPT ![events[i].url] = <<events[i].response>>]
          /\ events' = [events EXCEPT ![i].pc = "done"]
    /\ UNCHANGED menu
    /\ UNCHANGED <<sortVars, parseVars, groupVars, essiesVars, apiVars>>

\* s-maxage=300: the entry of a path leaves the cache.
Expire ==
    /\ \E p \in Paths :
          /\ cache[p] # <<>>
          /\ cache' = [cache EXCEPT ![p] = <<>>]
    /\ UNCHANGED <<menu, events>>
    /\ UNCHANGED <<sortVars, parseVars, groupVars, essiesVars, apiVars>>

\* The menu service changes its answer.
MenuChanges ==
    /\ \E m \in MenuPool : m # menu /\ menu' = m
    /\ UNCHANGED <<cache, events>>
    /\ UNCHANGED <<sortVars, parseVars, groupVars, essiesVars, apiVars>>

CacheNext ==
    Receive \/ Match \/ HandlerReturns \/ Put \/ Expire \/ MenuChanges

SpecCache == CacheInit /\ [][CacheNext]_vars

(***************************************************************************)
(* withCache: the claim                                                    *)
(***************************************************************************)
OnlyOkCached ==
    \A p \in Paths : cache[p] # <<>> => cache[p][1].status = 200

\* A step that takes an event out of its match invokes the handler exactly
\* when the cache holds no entry for the event's path.
InvokedOnMissOnly ==
    \A i \in 1..Len(events) :
        (events[i].pc = "match" /\ events'[i].pc # "match") =>
            (events'[i].invoked <=> cache[events[i].url] = <<>>)

\* The handler is invoked nowhere else.
InvokedInMatchOnly ==
    \A i \in 1..Len(events) :
        (events[i].pc # "match" /\ Len(events') = Len(events)) =>
            events'[i].invoked = events[i].invoked

\* C10: every response in the cache has status 200, so that the error page
\* of a request is not there for the next request of the same path; the
\* handler is invoked for a request exactly when the cache has no entry for
\* it.
C10_OnlyOkCachedHandlerOnMiss ==
    /\ []OnlyOkCached
    /\ [][InvokedOnMissOnly /\ InvokedInMatchOnly]_vars

\* A request has been answered with the error page, and a later request of
\* the same path has found no entry and has invoked the handler again.
C10_Witness ==
    /\ Len(events) = 2
    /\ events[1].url = events[2].url
    /\ events[1].pc = "done"
    /\ events[1].invoked
    /\ events[1].response.status = 500
    /\ events[2].invoked
    /\ events[2].pc = "handler"
    /\ cache[events[1].url] = <<>>

=============================================================================
